---- MODULE Spec2Model ----
(***************************************************************************)
(* Fireverse World Engine: the auto-arc progression model                  *)
(* (fireverse_engine/episode_engine.py) and the main-creature selection    *)
(* (engine.py).                                                            *)
(*                                                                         *)
(* Numbers.  The source computes in Python floats.  Here a real x is the   *)
(* integer x * Scale (fixed point, six decimals); a product with a decimal *)
(* literal of the source is taken in hundredths and rounded down, a        *)
(* quotient is rounded down.  Every rounding is monotone, as the float     *)
(* roundings are, and the thresholds and coefficients of the source are    *)
(* exact at this scale.                                                    *)
(***************************************************************************)
EXTENDS Integers, Sequences, FiniteSets, TLC

VARIABLES
    arc,             \* the ArcMemory record a caller holds
    seen,            \* progression_stage of every episode generate_episode returned
    raised,          \* the exception that ended the caller's loop, or "none"
    sweep,           \* inputs of a sweep of compute_arc_progression over episode numbers
    episode_number,  \* the next episode number of the sweep
    results,         \* outcome of every compute_arc_progression call of the sweep
    creatures,       \* arc_data["creatures"] of engine.py, as positions 1..n
    engine_episode,  \* the next episode number given to engine.generate_episode
    main_history     \* main creatures chosen for every engine episode so far

vars == <<arc, seen, raised, sweep, episode_number, results,
          creatures, engine_episode, main_history>>

arcVars == <<arc, seen, raised>>
sweepVars == <<sweep, episode_number, results>>
engineVars == <<creatures, engine_episode, main_history>>

(***************************************************************************)
(* Bounds of the model.                                                    *)
(***************************************************************************)
MaxTotal == 12        \* largest total_episodes of a newly created arc
ExtraCalls == 3       \* generate_episode calls made after the arc is complete
MaxLoadedTotal == 5   \* largest total_episodes of a loaded arc
MaxSweepTotal == 11   \* largest total_episodes of a sweep
BelowRange == 2       \* episode numbers swept below 1
AboveRange == 2       \* episode numbers swept above total_episodes
MaxPool == 5          \* largest creature pool
MaxEngineEpisodes == 3 \* engine episodes generated in a row

(***************************************************************************)
(* Fixed-point numbers.                                                    *)
(***************************************************************************)
Scale == 10 ^ 6

\* The decimal literal h/100 of the source.
Dec(h) == (h * Scale) \div 100

\* x * (h/100), for a decimal literal h/100 of the source.
Times(x, h) == (x * h) \div 100

Max(a, b) == IF a >= b THEN a ELSE b
Min(a, b) == IF a <= b THEN a ELSE b

(***************************************************************************)
(* episode_engine.py                                                       *)
(***************************************************************************)
STAGE_ORDER == <<"intro", "buildup", "escalation", "instability", "finale">>

Stages == {STAGE_ORDER[i] : i \in 1..Len(STAGE_ORDER)}

\* Position of a stage in STAGE_ORDER.
StageIndex(stage) == CHOOSE i \in 1..Len(STAGE_ORDER) : STAGE_ORDER[i] = stage

\* ArcMemory(arc_id, total_episodes): the dataclass defaults.
ArcMemory(total) ==
    [total_episodes |-> total,
     completed_episodes |-> 0,
     current_progress_stage |-> "intro",
     escalation_level |-> 0]

\* A bug: the upper limit forgotten.
_clamp_lower(value, low, high) == Max(low, value)

_clamp(value, low, high) == Max(low, Min(high, value))

\* A bug: the arc length itself as the denominator.
position_ratio_len(episode, total_episodes) ==
    LET safe_total == Max(total_episodes, 1)
        clamped_episode == Max(1, Min(episode, safe_total))
    IN  IF safe_total > 1
        THEN ((clamped_episode - 1) * Scale) \div safe_total
        ELSE Scale

\* A bug: the episode number taken as given, not clamped.
position_ratio_unclamped(episode, total_episodes) ==
    LET safe_total == Max(total_episodes, 1)
    IN  IF safe_total > 1
        THEN ((episode - 1) * Scale) \div (safe_total - 1)
        ELSE Scale

position_ratio(episode, total_episodes) ==
    LET safe_total == Max(total_episodes, 1)
        clamped_episode == Max(1, Min(episode, safe_total))
    IN  IF safe_total > 1
        THEN ((clamped_episode - 1) * Scale) \div (safe_total - 1)
        ELSE Scale

\* A bug: the escalation threshold typed as 0.90, so instability is never returned.
stage_for_ratio_typo(ratio) ==
    IF ratio < Dec(20) THEN "intro"
    ELSE IF ratio < Dec(40) THEN "buildup"
    ELSE IF ratio < Dec(90) THEN "escalation"
    ELSE IF ratio < Dec(90) THEN "instability"
    ELSE "finale"

stage_for_ratio(ratio) ==
    IF ratio < Dec(20) THEN "intro"
    ELSE IF ratio < Dec(40) THEN "buildup"
    ELSE IF ratio < Dec(65) THEN "escalation"
    ELSE IF ratio < Dec(90) THEN "instability"
    ELSE "finale"

_detect_progress_stage(episode, total_episodes) ==
    LET ratio == position_ratio(episode, total_episodes)
    IN  [stage |-> stage_for_ratio(ratio), position_ratio |-> ratio]

_stage_modifier(stage) ==
    CASE stage = "intro" -> Dec(10)
      [] stage = "buildup" -> Dec(30)
      [] stage = "escalation" -> Dec(55)
      [] stage = "instability" -> Dec(75)
      [] stage = "finale" -> Dec(95)
      [] OTHER -> Dec(10)

(***************************************************************************)
(* director_settings.  A value is None, or a mapping in which the key      *)
(* silhouette_visibility is absent, a number or a named level.             *)
(***************************************************************************)
SettingsNone == [kind |-> "None", number |-> 0, level |-> ""]
SettingsEmpty == [kind |-> "empty", number |-> 0, level |-> ""]
SettingsNumber(x) == [kind |-> "number", number |-> x, level |-> ""]
SettingsLevel(l) == [kind |-> "level", number |-> 0, level |-> l]

NamedLevels == {"low", "medium", "high"}

\* settings.get("silhouette_visibility", 0.2) after settings = director_settings or {}
silhouette_visibility(director_settings) ==
    IF director_settings.kind \in {"None", "empty"}
    THEN SettingsNumber(Dec(20))
    ELSE director_settings

\* float(v): a number converts; a string that is no numeral raises ValueError.
float(v) ==
    IF v.kind = "number"
    THEN [raised |-> "none", value |-> v.number]
    ELSE [raised |-> "ValueError", value |-> 0]

\* A bug: the prior escalation carried over whole instead of damped by 0.4.
escalation_raw_carry(prior_escalation, ratio, stage_mod) ==
    prior_escalation + Times(ratio, 35) + Times(stage_mod, 25)

\* The sum the escalation blend clamps.
escalation_raw(prior_escalation, ratio, stage_mod) ==
    Times(prior_escalation, 40) + Times(ratio, 35) + Times(stage_mod, 25)

\* A bug: the progression terms left out.
silhouette_static(base_silhouette, ratio, stage_mod) ==
    _clamp(base_silhouette, 0, Scale)

silhouette(base_silhouette, ratio, stage_mod) ==
    _clamp(base_silhouette + Times(ratio, 40) + Times(stage_mod, 30), 0, Scale)

compute_arc_progression(episode, total_episodes, director_settings, prior_escalation) ==
    LET detected == _detect_progress_stage(episode, total_episodes)
        stage == detected.stage
        ratio == detected.position_ratio
        stage_mod == _stage_modifier(stage)
        escalation_level ==
            _clamp(escalation_raw(prior_escalation, ratio, stage_mod), 0, Scale)
        base_silhouette == float(silhouette_visibility(director_settings))
    IN  [raised |-> base_silhouette.raised,
         stage |-> stage,
         position_ratio |-> ratio,
         scene_intensity |->
             _clamp(Dec(25) + Times(stage_mod, 45) + Times(ratio, 30), 0, Scale),
         narration_tension |->
             _clamp(Dec(20) + Times(stage_mod, 40) + Times(escalation_level, 25), 0, Scale),
         disturbance_frequency |->
             _clamp(Dec(15) + Times(ratio, 35) + Times(stage_mod, 30), 0, Scale),
         cliffhanger_strength |->
             _clamp(Dec(10) + Times(ratio, 45) + Times(stage_mod, 35), 0, Scale),
         silhouette_presence |->
             IF base_silhouette.raised = "none"
             THEN silhouette(base_silhouette.value, ratio, stage_mod)
             ELSE 0,
         escalation_level |-> escalation_level]

\* A bug: the episode counted from zero.
next_episode_zero(a) == a.completed_episodes

next_episode(a) == a.completed_episodes + 1

\* A bug: the counter advanced without the cap.
completed_after_uncapped(next, total_episodes) == next

completed_after(next, total_episodes) == Min(next, total_episodes)


(***************************************************************************)
(* Inputs.                                                                 *)
(***************************************************************************)
\* director_settings values: None, {}, a numeric silhouette_visibility (in range,
\* at the edges, and out of range), a named level.
SettingsInputs ==
    {SettingsNone, SettingsEmpty}
    \cup {SettingsNumber(x) : x \in {0 - Scale, 0 - Dec(50), 0, Dec(10), Dec(20),
                                     Dec(50), Dec(97), Scale,
                                     3 * Scale}}
    \cup {SettingsLevel(l) : l \in NamedLevels}

\* prior_escalation values, in range and out of range.
PriorInputs == {0 - 2 * Scale, 0, Dec(50), Scale, 5 * Scale}

\* escalation_level values of a loaded arc.
LoadedEscalations == {0, Dec(50), Scale}

idleArc == ArcMemory(0)
idleSweep == [total_episodes |-> 0, director_settings |-> SettingsNone,
              prior_escalation |-> 0]

ArcIdle == arc = idleArc /\ seen = <<>> /\ raised = "none"
SweepIdle == sweep = idleSweep /\ episode_number = 0 /\ results = <<>>
EngineIdle == creatures = <<>> /\ engine_episode = 0 /\ main_history = <<>>

(***************************************************************************)
(* generate_episode(arc, director_settings): one call of a caller's loop.  *)
(* An exception of compute_arc_progression leaves the arc untouched and    *)
(* ends the loop.                                                          *)
(***************************************************************************)
generate_episode(director_settings) ==
    /\ raised = "none"
    /\ Len(seen) < arc.total_episodes + ExtraCalls
    /\ LET next == next_episode(arc)
           progression == compute_arc_progression(
               next, arc.total_episodes, director_settings, arc.escalation_level)
       IN  IF progression.raised = "none"
           THEN /\ arc' = [arc EXCEPT
                      !.completed_episodes = completed_after(next, arc.total_episodes),
                      !.current_progress_stage = progression.stage,
                      !.escalation_level = progression.escalation_level]
                /\ seen' = Append(seen, progression.stage)
                /\ raised' = raised
           ELSE /\ raised' = progression.raised
                /\ UNCHANGED <<arc, seen>>
    /\ UNCHANGED <<sweepVars, engineVars>>

GenerateEpisode == \E director_settings \in SettingsInputs :
                       generate_episode(director_settings)

\* A newly created ArcMemory.
Init ==
    /\ \E total \in 1..MaxTotal : arc = ArcMemory(total)
    /\ seen = <<>>
    /\ raised = "none"
    /\ SweepIdle
    /\ EngineIdle

Next == GenerateEpisode

Spec == Init /\ [][Next]_vars

\* load_arcs: an arc as a file holds it.
InitLoaded ==
    /\ \E total \in 1..MaxLoadedTotal, completed \in 0..MaxLoadedTotal,
          stage \in Stages, escalation \in LoadedEscalations :
          /\ completed <= total
          /\ arc = [total_episodes |-> total,
                    completed_episodes |-> completed,
                    current_progress_stage |-> stage,
                    escalation_level |-> escalation]
    /\ seen = <<>>
    /\ raised = "none"
    /\ SweepIdle
    /\ EngineIdle

SpecLoaded == InitLoaded /\ [][Next]_vars

(***************************************************************************)
(* A sweep of compute_arc_progression over the episode numbers, the other  *)
(* arguments fixed: from below 1 to above total_episodes.                  *)
(***************************************************************************)
SweepLast == Max(sweep.total_episodes, 1) + AboveRange

ComputeArcProgression ==
    /\ episode_number <= SweepLast
    /\ results' = Append(results,
           [episode_number |-> episode_number,
            out |-> compute_arc_progression(
                episode_number, sweep.total_episodes,
                sweep.director_settings, sweep.prior_escalation)])
    /\ episode_number' = episode_number + 1
    /\ UNCHANGED <<sweep, arcVars, engineVars>>

InitSweep ==
    /\ \E total \in (0 - 1)..MaxSweepTotal, settings \in SettingsInputs,
          prior \in PriorInputs :
          sweep = [total_episodes |-> total, director_settings |-> settings,
                   prior_escalation |-> prior]
    /\ episode_number = 1 - BelowRange
    /\ results = <<>>
    /\ ArcIdle
    /\ EngineIdle

NextSweep == ComputeArcProgression

SpecSweep == InitSweep /\ [][NextSweep]_vars

(***************************************************************************)
(* engine.py                                                               *)
(***************************************************************************)
Range(s) == {s[i] : i \in 1..Len(s)}

\* rng.sample(population, k): k elements at distinct positions, in any order.
\* The generator is seeded with a SHA-256 digest of arc name and episode
\* number; which sample it yields is left open.
sample(population, k) ==
    {[i \in 1..k |-> population[p[i]]] :
        p \in {q \in [1..k -> 1..Len(population)] :
                  \A i, j \in 1..k : i # j => q[i] # q[j]}}

\* The lists select_main_creatures can return; the two fallback names are -1, -2.
select_main_creatures(available) ==
    IF Len(available) >= 3 THEN sample(available, 3)
    ELSE IF Len(available) = 2 THEN {available}
    ELSE IF Len(available) = 1 THEN {<<available[1], available[1]>>}
    ELSE {<<0 - 1, 0 - 2>>}

\* engine.generate_episode(arc_name, episode_number), as far as the creatures go.
EngineGenerateEpisode ==
    /\ engine_episode <= MaxEngineEpisodes
    /\ \E main_creatures \in select_main_creatures(creatures) :
           main_history' = Append(main_history, main_creatures)
    /\ engine_episode' = engine_episode + 1
    /\ UNCHANGED <<creatures, arcVars, sweepVars>>

\* load_arc_data: a pool of distinct creatures.
InitEngine ==
    /\ \E n \in 0..MaxPool : creatures = [i \in 1..n |-> i]
    /\ engine_episode = 1
    /\ main_history = <<>>
    /\ ArcIdle
    /\ SweepIdle

NextEngine == EngineGenerateEpisode

SpecEngine == InitEngine /\ [][NextEngine]_vars


(***************************************************************************)
(* Properties of generate_episode on an ArcMemory.                         *)
(***************************************************************************)
\* total_episodes of the arc of tests/test_auto_arc.py
TestTotal == 10

\* Stages of the first n reports are in STAGE_ORDER order, none before an earlier one.
NonDecreasing(stages, n) ==
    \A i \in 1..(n - 1) : StageIndex(stages[i]) <= StageIndex(stages[i + 1])

\* C1: for every total_episodes = N >= 2, the stages produced for episodes
\* 1, 2, ..., N by successive generate_episode calls on a newly created
\* ArcMemory never step back in intro < buildup < escalation < instability <
\* finale, and episode N yields finale.
C1_StagesOrderedFinaleLast ==
    arc.total_episodes >= 2 =>
        /\ NonDecreasing(seen, Min(Len(seen), arc.total_episodes))
        /\ Len(seen) >= arc.total_episodes => seen[arc.total_episodes] = "finale"

C1_Witness ==
    /\ arc.total_episodes >= 7
    /\ Len(seen) = arc.total_episodes
    /\ seen[1] = "intro"
    /\ seen[arc.total_episodes - 1] = "instability"

\* C2: from a newly created ArcMemory with total_episodes = 10, ten successive
\* generate_episode calls report each of the five stage names, finale on the
\* tenth call and on none of the first nine.
C2_TenEpisodesAllStages ==
    arc.total_episodes = TestTotal =>
        /\ \A i \in 1..Min(Len(seen), TestTotal - 1) : seen[i] # "finale"
        /\ Len(seen) >= TestTotal =>
               /\ seen[TestTotal] = "finale"
               /\ {seen[i] : i \in 1..TestTotal} = Stages

C2_Witness ==
    /\ arc.total_episodes = TestTotal
    /\ Len(seen) = TestTotal
    /\ arc.completed_episodes = TestTotal

\* C3: on an ArcMemory with total_episodes >= 1 and 0 <= completed_episodes <=
\* total_episodes, a generate_episode call that returns raises
\* completed_episodes by exactly one when it is below total_episodes and leaves
\* it unchanged when it equals total_episodes; over every step, a call that
\* raises included, completed_episodes never decreases and stays within
\* 0..total_episodes.
C3_CompletedSaturates ==
    /\ [](arc.completed_episodes \in 0..arc.total_episodes)
    /\ [][/\ seen' # seen =>
                arc'.completed_episodes =
                    IF arc.completed_episodes < arc.total_episodes
                    THEN arc.completed_episodes + 1
                    ELSE arc.completed_episodes
          /\ arc'.completed_episodes >= arc.completed_episodes
          /\ arc'.completed_episodes <= arc'.total_episodes
          /\ arc'.total_episodes = arc.total_episodes]_vars

\* Calls were made below total_episodes and at it.
C3_Witness ==
    /\ arc.total_episodes >= 2
    /\ Len(seen) > arc.total_episodes
    /\ seen[1] # "finale"
    /\ arc.completed_episodes = arc.total_episodes

\* C10: from a newly created ArcMemory with total_episodes >= 1, over any number
\* of generate_episode calls, calls after the arc is complete included, the
\* stored escalation_level never decreases from one call to the next and the
\* sum the escalation blend clamps stays below 1.
C10_EscalationGrowsUnclamped ==
    [][seen' # seen =>
          /\ arc'.escalation_level >= arc.escalation_level
          /\ LET detected == _detect_progress_stage(next_episode(arc), arc.total_episodes)
             IN  escalation_raw(arc.escalation_level, detected.position_ratio,
                                _stage_modifier(detected.stage)) < Scale]_vars

\* Calls went on after the arc was complete and the level has come close to 1.
C10_Witness ==
    /\ Len(seen) > arc.total_episodes
    /\ arc.completed_episodes = arc.total_episodes
    /\ arc.escalation_level > Dec(90)

(***************************************************************************)
(* Properties of compute_arc_progression over a sweep.                     *)
(***************************************************************************)
Returned == {r \in Range(results) : r.out.raised = "none"}

Swept(e) == \E r \in Returned : r.episode_number = e

OutAt(e) == (CHOOSE r \in Returned : r.episode_number = e).out

InUnit(x) == 0 <= x /\ x <= Scale

\* C4: every signal compute_arc_progression returns lies in [0,1], whatever the
\* prior_escalation and the silhouette_visibility.
C4_SignalsInUnitInterval ==
    \A r \in Returned :
        /\ InUnit(r.out.scene_intensity)
        /\ InUnit(r.out.narration_tension)
        /\ InUnit(r.out.disturbance_frequency)
        /\ InUnit(r.out.cliffhanger_strength)
        /\ InUnit(r.out.silhouette_presence)
        /\ InUnit(r.out.escalation_level)

\* Both limits of the clamp have acted.
C4_Witness ==
    /\ sweep.prior_escalation = 5 * Scale
    /\ sweep.director_settings.kind = "number"
    /\ sweep.director_settings.number < 0
    /\ \E r \in Returned :
           r.out.escalation_level = Scale /\ r.out.silhouette_presence = 0

\* C5 as stated: for total_episodes >= 2 and any director settings,
\* silhouette_presence at episode total_episodes is strictly greater than at
\* episode 1.  Stated here for the settings of the documented range alone
\* (silhouette_visibility absent or a number from 0 to 1).
C5_Original ==
    (/\ sweep.total_episodes >= 2
     /\ InUnit(sweep.director_settings.number)
     /\ Swept(1)
     /\ Swept(sweep.total_episodes)) =>
        OutAt(sweep.total_episodes).silhouette_presence > OutAt(1).silhouette_presence

\* C5 amended: for total_episodes >= 2 and a silhouette_visibility that is absent
\* or a number, silhouette_presence at episode total_episodes is at least the
\* one at episode 1, and strictly greater unless the clamp holds both at 1 or
\* both at 0.
C5_Amended ==
    (sweep.total_episodes >= 2 /\ Swept(1) /\ Swept(sweep.total_episodes)) =>
        LET early == OutAt(1).silhouette_presence
            late == OutAt(sweep.total_episodes).silhouette_presence
        IN  /\ late >= early
            /\ (early < Scale /\ late > 0) => late > early

\* Growth up to the limit: episode 1 below 1, the last episode clamped to 1.
C5_Witness ==
    /\ sweep.total_episodes >= 2
    /\ Swept(1)
    /\ Swept(sweep.total_episodes)
    /\ OutAt(1).silhouette_presence > 0
    /\ OutAt(1).silhouette_presence < Scale
    /\ OutAt(sweep.total_episodes).silhouette_presence = Scale

\* C6 as stated: compute_arc_progression returns an ArcProgression for every
\* episode_number and total_episodes, every prior_escalation and every
\* director_settings: None, an empty mapping, a silhouette_visibility that is a
\* number or a named level.
C6_NeverFails == \A r \in Range(results) : r.out.raised = "none"

\* C7: for fixed total_episodes, position_ratio never decreases as
\* episode_number grows over the integers, lies in [0,1], is 0 at episode 1 and
\* 1 at episode total_episodes when total_episodes >= 2, and is 1 whenever
\* total_episodes <= 1.
C7_PositionRatio ==
    /\ \A r, q \in Returned :
           r.episode_number <= q.episode_number =>
               r.out.position_ratio <= q.out.position_ratio
    /\ \A r \in Returned : InUnit(r.out.position_ratio)
    /\ sweep.total_episodes >= 2 =>
           /\ Swept(1) => OutAt(1).position_ratio = 0
           /\ Swept(sweep.total_episodes) =>
                  OutAt(sweep.total_episodes).position_ratio = Scale
    /\ sweep.total_episodes <= 1 =>
           \A r \in Returned : r.out.position_ratio = Scale

\* A whole sweep, from below episode 1 to above total_episodes.
C7_Witness ==
    /\ sweep.total_episodes >= 3
    /\ episode_number > SweepLast
    /\ Swept(0)
    /\ Swept(2)
    /\ Swept(sweep.total_episodes + 1)
    /\ OutAt(2).position_ratio > 0
    /\ OutAt(2).position_ratio < Scale

\* Stages of episodes 1..total_episodes of the sweep.
ArcStages == [e \in 1..sweep.total_episodes |-> OutAt(e).stage]

ArcSwept == sweep.total_episodes >= 1 /\ \A e \in 1..sweep.total_episodes : Swept(e)

\* C8 as stated: for fixed total_episodes, episodes 1..total_episodes visit each
\* of the five stages, in order, none skipped.  Stated here for arcs of two
\* episodes or more alone.
C8_Original ==
    (ArcSwept /\ sweep.total_episodes >= 2) =>
        /\ NonDecreasing(ArcStages, sweep.total_episodes)
        /\ Range(ArcStages) = Stages

\* C8 amended: for fixed total_episodes >= 5, episodes 1..total_episodes visit
\* each of the five stages, in order, none skipped; for a shorter arc the order
\* still holds but stages are skipped.
C8_Amended ==
    ArcSwept =>
        /\ NonDecreasing(ArcStages, sweep.total_episodes)
        /\ sweep.total_episodes >= 5 => Range(ArcStages) = Stages

\* The shortest arc that visits every stage.
C8_Witness ==
    /\ sweep.total_episodes = 5
    /\ ArcSwept
    /\ Range(ArcStages) = Stages

(***************************************************************************)
(* Properties of the main-creature selection.                              *)
(***************************************************************************)
\* C9 as stated: with episodes generated in increasing order over a pool of at
\* least recent_window creatures, a creature chosen as main for episode e is
\* main in none of the episodes e+1 .. e+recent_window-1 (recent_window = 3).
C9_Cooldown ==
    LET recent_window == 3
    IN  Len(creatures) >= recent_window =>
            \A e, f \in 1..Len(main_history) :
                (e < f /\ f <= e + recent_window - 1) =>
                    Range(main_history[e]) \cap Range(main_history[f]) = {}

====
